---- MODULE Spec2Model ----
(***************************************************************************)
(* Model of crypto_liquidity_dashboard.py: the Streamlit script that polls *)
(* CoinGecko, derives market-cap deltas over a lookback window, keeps the  *)
(* last 200 DeltaSets of the session and classifies the flow with          *)
(* decide_flow.                                                            *)
(*                                                                         *)
(* Money is counted in units of $1M, time in minutes.  Python floats are   *)
(* modelled as exact rationals [n, d] (d > 0, lowest terms); Python None   *)
(* is the record None, whose fields n and d do not exist, so arithmetic or *)
(* an ordering comparison on None is an evaluation error, as it is a       *)
(* TypeError in Python.                                                    *)
(***************************************************************************)
EXTENDS Integers, Sequences, FiniteSets, TLC

VARIABLES
    pc,                     \* position of the script run
    runs,                   \* script runs so far (the session's clock tick)
    window_minutes,         \* sidebar: TF_OPTIONS[tf_label]
    gl,                     \* analyze: get_global_snapshot()
    btc_now, eth_now,       \* analyze: caps_now.get(...)
    stable_now, alt_now,    \* analyze: basket sum, residual bucket
    btc_prev_t, eth_prev_t, \* analyze: get_market_caps_history(...)
    sidx,                   \* analyze: position of `for sid in STABLE_IDS`
    stable_prev_sum,        \* analyze: accumulator of the basket loop
    have_any_stable_prev,   \* analyze: flag of the basket loop
    unavail,                \* ghost: quantities that were unavailable in this run
    res,                    \* module level: res = analyze(window_minutes)
    d,                      \* module level: d = res["deltas"]
    ts,                     \* st.session_state.ts
    verdict,                \* module level: decide_flow(...) result
    caps, target_ms, prev,  \* get_market_caps_history: series, cutoff, result
    feed,                   \* ghost: what analyze returns on successive runs
    log                     \* ghost: DeltaSets of all successful runs, in order

vars == <<pc, runs, window_minutes, gl, btc_now, eth_now, stable_now, alt_now,
          btc_prev_t, eth_prev_t, sidx, stable_prev_sum, have_any_stable_prev,
          unavail, res, d, ts, verdict, caps, target_ms, prev, feed, log>>

analyzeVars == <<gl, btc_now, eth_now, stable_now, alt_now, btc_prev_t,
                 eth_prev_t, sidx, stable_prev_sum, have_any_stable_prev>>
historyVars == <<caps, target_ms, prev>>
sessionVars == <<feed, log>>

-----------------------------------------------------------------------------
(* Values *)

None == [tag |-> "None"]

Abs(x) == IF x < 0 THEN -x ELSE x

RECURSIVE GCD(_, _)
GCD(a, b) == IF b = 0 THEN a ELSE GCD(b, a % b)

\* The rational n/d (d # 0) in lowest terms with a positive denominator.
Rat(n, dd) ==
    LET g == GCD(Abs(n), Abs(dd))
        s == IF dd < 0 THEN -1 ELSE 1
    IN  [n |-> s * (n \div g), d |-> s * (dd \div g)]

Q(x) == [n |-> x, d |-> 1]
RAdd(a, b) == Rat(a.n * b.d + b.n * a.d, a.d * b.d)
RSub(a, b) == Rat(a.n * b.d - b.n * a.d, a.d * b.d)
RMul(a, b) == Rat(a.n * b.n, a.d * b.d)
RDiv(a, b) == Rat(a.n * b.d, a.d * b.n)
RNeg(a) == [n |-> -a.n, d |-> a.d]
RLT(a, b) == a.n * b.d < b.n * a.d
RLE(a, b) == a.n * b.d <= b.n * a.d
RGT(a, b) == RLT(b, a)
RGE(a, b) == RLE(b, a)
RMax(a, b) == IF RGE(a, b) THEN a ELSE b

-----------------------------------------------------------------------------
(* decide_flow *)

\* tol = 5e6
Tol == 5
tol == Q(Tol)

V(msg, color) == [msg |-> msg, color |-> color, leader |-> ""]

UnknownAsNeutral  == V("neutral", "gray")
\* the verdict of `if any(v is None ...)`
Unknown           == V("insufficient_data", "gray")
InflowStables     == V("inflow_qualified_stables", "orange")
InflowLeader(l)   == [msg |-> "inflow_concentrated", color |-> "green", leader |-> l]
OutflowToStables  == V("outflow_flight_to_stables", "red")
OutflowMarket     == V("outflow_from_market", "red")
RotationAltsToBtc == V("rotation_alts_to_btc", "orange")
RotationBtcToAlts == V("rotation_btc_to_alts", "orange")
EthConcentration  == V("relative_concentration_eth", "orange")
Indecision        == V("indecision_flight_to_stables", "gray")
NeutralVerdict    == V("neutral", "gray")

\* Python's max(list, key=...): the first element of the list whose key no other
\* element exceeds.
MaxByKey(items) ==
    LET i == CHOOSE i \in 1..Len(items) :
                 /\ \A j \in 1..Len(items) : RLE(items[j][2], items[i][2])
                 /\ \A j \in 1..(i - 1) : RLT(items[j][2], items[i][2])
    IN  items[i]

BelowTolLoose(x) == RLE(x, tol)
\* the bound of "no growth elsewhere" in the ETH and stablecoin rotation rules: v < tol
BelowTol(x) == RLT(x, tol)

LeaderFirstListed(items) == items[1]
Leader(items) == MaxByKey(items)

StableFlightAboveZero(d_stable) == RGT(d_stable, Q(0))
\* the test of the outflow branch: d_stable > tol
StableFlight(d_stable) == RGT(d_stable, tol)

\* any(v is None for v in [d_btc, d_eth, d_stable, d_alt])
AnyNone(d_btc, d_eth, d_stable, d_alt) ==
    \E v \in {d_btc, d_eth, d_stable, d_alt} : v = None

Rotation(d_btc, d_eth, d_stable, d_alt) ==
    IF RGT(d_btc, tol) /\ RLT(d_alt, RNeg(tol)) THEN RotationAltsToBtc
    ELSE IF RGT(d_alt, tol) /\ RLT(d_btc, RNeg(tol)) THEN RotationBtcToAlts
    ELSE IF RGT(d_eth, tol) /\ BelowTol(d_btc) /\ BelowTol(d_alt) THEN EthConcentration
    ELSE IF RGT(d_stable, tol) /\ BelowTol(RMax(d_btc, RMax(d_eth, d_alt))) THEN Indecision
    ELSE NeutralVerdict

decide_flow(d_total, d_btc, d_eth, d_stable, d_alt) ==
    IF AnyNone(d_btc, d_eth, d_stable, d_alt) THEN Unknown
    ELSE IF d_total # None /\ RGT(d_total, tol) THEN
        LET leader == Leader(<< <<"BTC", d_btc>>, <<"ETH", d_eth>>,
                                <<"Alts", d_alt>>, <<"Stables", d_stable>> >>)[1]
        IN  IF leader = "Stables" THEN InflowStables ELSE InflowLeader(leader)
    ELSE IF d_total # None /\ RLT(d_total, RNeg(tol)) THEN
        IF StableFlight(d_stable) THEN OutflowToStables ELSE OutflowMarket
    ELSE Rotation(d_btc, d_eth, d_stable, d_alt)

DeltaSet(t, b, e, s, a) == [total |-> t, btc |-> b, eth |-> e, stable |-> s, alt |-> a]
NoDeltas == DeltaSet(None, None, None, None, None)

\* verdict_msg, verdict_color, verdict_note = decide_flow(d["total"], ...)
Verdict(dd) == decide_flow(dd.total, dd.btc, dd.eth, dd.stable, dd.alt)

-----------------------------------------------------------------------------
(* Values of the variables a specification does not use *)

AnalyzeIdle ==
    /\ gl = None /\ btc_now = 0 /\ eth_now = 0 /\ stable_now = 0 /\ alt_now = 0
    /\ btc_prev_t = None /\ eth_prev_t = None /\ sidx = 0
    /\ stable_prev_sum = 0 /\ have_any_stable_prev = FALSE
HistoryIdle == caps = <<>> /\ target_ms = 0 /\ prev = None
SessionIdle == feed = <<>> /\ log = <<>>

-----------------------------------------------------------------------------
(* The classifier on arbitrary DeltaSets *)

MaxDelta == 6
DeltaVals == {None} \cup {Q(x) : x \in -MaxDelta..MaxDelta}

InitClassify ==
    /\ pc = "classify" /\ runs = 0 /\ window_minutes = 60
    /\ AnalyzeIdle /\ HistoryIdle /\ SessionIdle
    /\ unavail = {} /\ res = None /\ ts = <<>> /\ verdict = None
    /\ \E t, b, e, s, a \in DeltaVals : d = DeltaSet(t, b, e, s, a)

\* verdict_msg, verdict_color, verdict_note = decide_flow(d["total"], d["btc"], ...)
Classify ==
    /\ pc = "classify"
    /\ verdict' = Verdict(d)
    /\ pc' = "classified"
    /\ UNCHANGED <<runs, window_minutes, analyzeVars, unavail, res, d, ts,
                   historyVars, sessionVars>>

NextClassify == Classify
SpecClassify == InitClassify /\ [][NextClassify]_vars

-----------------------------------------------------------------------------
(* HTTP helper and the historical lookup *)

\* cg_get(..., retries: int = 3, ...)
Retries == 3
\* What each of the attempts of one call does: TRUE is a 200 answer, FALSE another
\* status or a requests.RequestException.
Attempts == [1..Retries -> BOOLEAN]

\* The JSON body of the first attempt answered with 200, None when every attempt
\* of the bounded loop failed.
cg_get(attempts, body) ==
    IF \E i \in 1..Retries : attempts[i] THEN body ELSE None

\* data.get(key, default) on `data or {}`
Get(data, key, default) ==
    IF data # None /\ key \in DOMAIN data THEN data[key] ELSE default

\* target_ms: the instant minutes_back before now (time counted in minutes)
TargetMs(now, minutes_back) == now - minutes_back

\* for ts, val in caps: if ts <= target_ms: prev = (ts, float(val)) else: break
RECURSIVE ScanPrev(_, _, _, _)
ScanPrev(series, i, target, found) ==
    IF i > Len(series) THEN found
    ELSE IF series[i][1] <= target
         THEN ScanPrev(series, i + 1, target, <<series[i][1], series[i][2]>>)
         ELSE found

RECURSIVE ScanPrevStrict(_, _, _, _)
ScanPrevStrict(series, i, target, found) ==
    IF i > Len(series) THEN found
    ELSE IF series[i][1] < target
         THEN ScanPrevStrict(series, i + 1, target, <<series[i][1], series[i][2]>>)
         ELSE found

HistoryBeforeCutoff(data, target) ==
    LET series == Get(data, "market_caps", <<>>)
    IN  IF series = <<>> THEN None ELSE ScanPrevStrict(series, 1, target, None)

\* get_market_caps_history, on the answer `data` of its cg_get call
get_market_caps_history(data, target) ==
    LET series == Get(data, "market_caps", <<>>)
    IN  IF series = <<>> THEN None ELSE ScanPrev(series, 1, target, None)

MaxTime == 4
MaxSeries == 3
Times == 0..MaxTime
SampleCaps == {40, 44}
Samples == Times \X SampleCaps

\* The series CoinGecko answers with: samples in time order.
TimeOrdered(series) ==
    \A i, j \in 1..Len(series) : i < j => series[i][1] <= series[j][1]
ChartSeries ==
    {s \in UNION {[1..n -> Samples] : n \in 0..MaxSeries} : TimeOrdered(s)}
ChartBodies == {[market_caps |-> s] : s \in ChartSeries} \cup {[status |-> "error"]}

InitHistory ==
    /\ pc = "chart" /\ runs = 0 /\ window_minutes = 60
    /\ AnalyzeIdle /\ HistoryIdle /\ SessionIdle
    /\ unavail = {} /\ res = None /\ ts = <<>> /\ verdict = None /\ d = NoDeltas

\* get_market_caps_history up to target_ms: the /market_chart call and the cutoff
FetchChart ==
    /\ pc = "chart"
    /\ \E attempts \in Attempts, body \in ChartBodies,
          now \in Times, minutes_back \in 0..(MaxTime + 1) :
          /\ caps' = Get(cg_get(attempts, body), "market_caps", <<>>)
          /\ target_ms' = TargetMs(now, minutes_back)
    /\ pc' = "scan"
    /\ UNCHANGED <<runs, window_minutes, analyzeVars, unavail, res, d, ts, verdict,
                   prev, sessionVars>>

\* get_market_caps_history from `if not caps` to `return prev`
ScanHistory ==
    /\ pc = "scan"
    /\ prev' = get_market_caps_history([market_caps |-> caps], target_ms)
    /\ pc' = "looked_up"
    /\ UNCHANGED <<runs, window_minutes, analyzeVars, unavail, res, d, ts, verdict,
                   caps, target_ms, sessionVars>>

NextHistory == FetchChart \/ ScanHistory
SpecHistory == InitHistory /\ [][NextHistory]_vars

-----------------------------------------------------------------------------
(* analyze: the pieces *)

STABLE_IDS == <<"tether", "usd-coin", "dai", "true-usd", "first-digital-usd",
                "paypal-usd", "ethena-usde">>
TF_OPTIONS == {15, 60, 240, 1440}

EmptyDict == [k \in {} |-> None]
\* Python truthiness of a dict or None, and of a JSON number or null (a number of
\* a JSON body is a rational Q(x), so that it and None can be told apart)
TruthyDict(x) == x # None /\ DOMAIN x # {}
TruthyNum(x) == x # None /\ x.n # 0
\* float(x or 0.0), in whole units
OrZero(x) == IF TruthyNum(x) THEN x.n ELSE 0

\* get_global_snapshot, on the answer `data` of its cg_get call
get_global_snapshot(data) ==
    IF ~TruthyDict(data) THEN None
    ELSE LET dd == Get(data, "data", EmptyDict)
         IN  [total   |-> Get(Get(dd, "total_market_cap", EmptyDict), "usd", None),
              btc_dom |-> Get(Get(dd, "market_cap_percentage", EmptyDict), "btc", None),
              eth_dom |-> Get(Get(dd, "market_cap_percentage", EmptyDict), "eth", None)]

\* get_simple_caps, on the answer `data` of its cg_get call: one entry per id the
\* answer holds, a missing or null usd_market_cap becoming 0.0
get_simple_caps(data) ==
    LET body == IF data = None THEN EmptyDict ELSE data
    IN  [cid \in DOMAIN body |-> OrZero(Get(body[cid], "usd_market_cap", Q(0)))]

\* caps_now.get(cid, 0.0)
CapOf(caps_now, cid) == IF cid \in DOMAIN caps_now THEN caps_now[cid] ELSE 0

RECURSIVE SumValues(_, _)
SumValues(f, keys) ==
    IF keys = {} THEN 0
    ELSE LET k == CHOOSE k \in keys : TRUE
         IN  f[k] + SumValues(f, keys \ {k})

\* float(sum(st_map_now.values()))
BasketSum(st_map_now) == SumValues(st_map_now, DOMAIN st_map_now)

\* alt_now = max(total_now - btc_now - stable_now, 0.0)
AltResidual(total, btc, stable) ==
    IF total - btc - stable > 0 THEN total - btc - stable ELSE 0

\* d_btc, d_eth: (now - prev_t[1]) if (now and prev_t) else None
BucketDelta(now, prev_t) ==
    IF now # 0 /\ prev_t # None THEN Q(now - prev_t[2]) ELSE None

\* d_stable: (stable_now - stable_prev) if (stable_now and stable_prev is not None)
StableDelta(now, stable_prev) ==
    IF now # 0 /\ stable_prev # None THEN RSub(Q(now), stable_prev) ELSE None

\* np.clip(x, lo, hi)
Clip(x, lo, hi) == IF RLT(x, lo) THEN lo ELSE IF RGT(x, hi) THEN hi ELSE x

\* eth_share_in_alts_now: eth_now / alt_now (0.35 when either is zero), clipped
\* to [0.15, 0.65]
EthShareInAlts(eth, alt) ==
    Clip(IF alt # 0 /\ eth # 0 THEN Rat(eth, alt) ELSE Rat(35, 100),
         Rat(15, 100), Rat(65, 100))

AltDeltaTimesShare(d_eth, share) ==
    IF d_eth # None THEN RMul(d_eth, share) ELSE None
\* d_alt = (d_eth / eth_share_in_alts_now) if (d_eth is not None) else None
AltDelta(d_eth, share) ==
    IF d_eth # None THEN RDiv(d_eth, share) ELSE None

\* d_total = d_btc + d_stable + d_alt when none of the three is None
TotalDelta(d_btc, d_stable, d_alt) ==
    IF d_btc # None /\ d_stable # None /\ d_alt # None
    THEN RAdd(RAdd(d_btc, d_stable), d_alt) ELSE None

\* The DeltaSet of analyze from the three measured deltas and the current caps
DeriveDeltas(d_btc, d_eth, d_stable, eth, alt) ==
    LET d_alt == AltDelta(d_eth, EthShareInAlts(eth, alt))
    IN  DeltaSet(TotalDelta(d_btc, d_stable, d_alt), d_btc, d_eth, d_stable, d_alt)

\* stable_dom_now = (stable_now / total_now * 100.0) if total_now else None
StableDominance(stable, total) ==
    IF total # 0 THEN RMul(Rat(stable, total), Q(100)) ELSE None
OrZeroR(x) == IF x = None THEN Q(0) ELSE x
\* alt_dom_now = 100.0 - (btc_dom_now or 0.0) - (stable_dom_now or 0.0)
AltDominance(btc_dom, stable_dom) ==
    RSub(RSub(Q(100), OrZeroR(btc_dom)), OrZeroR(stable_dom))

\* The dict analyze returns: "now" with its "dom", and "deltas"
Dominance(b, e, s, a) == [btc |-> b, eth |-> e, stable |-> s, alt |-> a]
Snapshot(total, b, e, s, a, dom) ==
    [total |-> total, btc |-> b, eth |-> e, stable |-> s, alt |-> a, dom |-> dom]
Result(snapshot, deltas) == [now |-> snapshot, deltas |-> deltas]

-----------------------------------------------------------------------------
(* Module level: the script after analyze returns *)

\* st.session_state.ts[-200:]
HistCap == 200

KeepFirst(points) ==
    IF Len(points) <= HistCap THEN points ELSE SubSeq(points, 1, HistCap)
\* st.session_state.ts = st.session_state.ts[-200:]
KeepLast(points) ==
    IF Len(points) <= HistCap THEN points
    ELSE SubSeq(points, Len(points) - HistCap + 1, Len(points))

\* {"t": timestamp, "dTotal": d["total"], ...}; the timestamp is the tick of the run
Point(t, dd) ==
    [t |-> t, dTotal |-> dd.total, dBTC |-> dd.btc, dETH |-> dd.eth,
     dStable |-> dd.stable, dAlt |-> dd.alt]

\* if not res: st.error(...); st.stop()
StopOnError ==
    /\ pc = "analyzed"
    /\ res = None
    /\ pc' = "idle"
    /\ UNCHANGED <<runs, window_minutes, analyzeVars, unavail, res, d, ts, verdict,
                   historyVars, sessionVars>>

\* d = res["deltas"]; the append to the session series and its cut to the last
\* 200 points; the verdict
Render ==
    /\ pc = "analyzed"
    /\ res # None
    /\ d' = res.deltas
    /\ ts' = KeepLast(Append(ts, Point(runs, res.deltas)))
    /\ verdict' = Verdict(res.deltas)
    /\ log' = Append(log, res.deltas)
    /\ pc' = "idle"
    /\ UNCHANGED <<runs, window_minutes, analyzeVars, unavail, res, historyVars, feed>>

-----------------------------------------------------------------------------
(* One run of the script: analyze step by step, one step per CoinGecko call *)

MaxRefresh == 1

\* The instant of the run, in minutes: the charts (days=1) span [0, NowMinute].
NowMinute == 24 * 60

\* What CoinGecko may answer
GlobalBody(total, b, e) ==
    [data |-> [total_market_cap |-> [usd |-> total],
               market_cap_percentage |-> [btc |-> b, eth |-> e]]]
GlobalBodies ==
    {EmptyDict, [data |-> EmptyDict]}
    \cup {GlobalBody(t, b, e) : t \in {None, Q(0), Q(100)},
                               b \in {None, Q(50)}, e \in {None, Q(20)}}

Absent == [kind |-> "absent"]
NoCap == [kind |-> "no_cap"]
NullCap == [kind |-> "null_cap"]
Cap(x) == [kind |-> "cap", cap |-> x]
\* A /simple/price answer: an entry for each id that is not Absent
PriceBody(choice) ==
    [cid \in {c \in DOMAIN choice : choice[c] # Absent} |->
        IF choice[cid] = NoCap THEN [usd |-> 1]
        ELSE IF choice[cid] = NullCap THEN [usd |-> 1, usd_market_cap |-> None]
        ELSE [usd |-> 1, usd_market_cap |-> Q(choice[cid].cap)]]
CapsBodies ==
    {PriceBody([bitcoin |-> b, ethereum |-> e]) :
        b \in {Absent, NoCap, Cap(50)}, e \in {Absent, NullCap, Cap(20)}}
StableSet == {STABLE_IDS[i] : i \in 1..Len(STABLE_IDS)}
StableBodies ==
    {PriceBody([sid \in StableSet |-> IF sid \in S THEN Cap(1) ELSE Absent]) :
        S \in SUBSET StableSet}
BtcCharts ==
    { [status |-> "error"],
      [market_caps |-> << <<0, 44>>, <<1379, 50>>, <<1381, 56>> >>],
      [market_caps |-> << <<5, 56>> >>] }
EthCharts ==
    { [status |-> "error"],
      [market_caps |-> << <<0, 14>>, <<1379, 20>>, <<1381, 26>> >>] }
StableCharts ==
    { [status |-> "error"], [market_caps |-> << <<0, 1>> >>] }

\* Whether the answer holds a capitalization for the id
HasCap(data, cid) ==
    /\ data # None /\ cid \in DOMAIN data
    /\ Get(data[cid], "usd_market_cap", None) # None
Flag(name, missing) == IF missing THEN {name} ELSE {}

Init ==
    /\ pc = "idle" /\ runs = 0 /\ window_minutes = 60
    /\ AnalyzeIdle /\ HistoryIdle /\ SessionIdle
    /\ unavail = {} /\ res = None /\ ts = <<>> /\ verdict = None /\ d = NoDeltas

\* st.selectbox(..., list(TF_OPTIONS.keys()), index=1)
SelectTimeframe ==
    /\ pc = "idle"
    /\ window_minutes' \in TF_OPTIONS \ {window_minutes}
    /\ UNCHANGED <<pc, runs, analyzeVars, unavail, res, d, ts, verdict,
                   historyVars, sessionVars>>

\* analyze: gl = get_global_snapshot(); if not gl or not gl["total"]: return None.
\* What starts a run (the refresh timer, a widget) is not modelled: a run may
\* start whenever the script is idle.
FetchGlobal ==
    /\ pc = "idle"
    /\ runs < MaxRefresh
    /\ runs' = runs + 1
    /\ \E attempts \in Attempts, body \in GlobalBodies :
          LET g == get_global_snapshot(cg_get(attempts, body))
          IN  /\ gl' = g
              /\ unavail' = Flag("global_fetch", cg_get(attempts, body) = None)
                             \cup Flag("global_total", g = None \/ g.total = None)
                             \cup Flag("global_dominance",
                                       g = None \/ g.btc_dom = None \/ g.eth_dom = None)
              /\ IF g = None \/ ~TruthyNum(g.total)
                 THEN res' = None /\ pc' = "analyzed"
                 ELSE res' = res /\ pc' = "caps"
    /\ UNCHANGED <<window_minutes, btc_now, eth_now, stable_now, alt_now, btc_prev_t,
                   eth_prev_t, sidx, stable_prev_sum, have_any_stable_prev,
                   d, ts, verdict, historyVars, sessionVars>>

\* analyze: caps_now = get_simple_caps(["bitcoin", "ethereum"])
FetchCaps ==
    /\ pc = "caps"
    /\ \E attempts \in Attempts, body \in CapsBodies :
          LET data == cg_get(attempts, body)
              caps_now == get_simple_caps(data)
          IN  /\ btc_now' = CapOf(caps_now, "bitcoin")
              /\ eth_now' = CapOf(caps_now, "ethereum")
              /\ unavail' = unavail \cup Flag("btc_now", ~HasCap(data, "bitcoin"))
                                    \cup Flag("eth_now", ~HasCap(data, "ethereum"))
    /\ pc' = "stables"
    /\ UNCHANGED <<runs, window_minutes, gl, stable_now, alt_now, btc_prev_t,
                   eth_prev_t, sidx, stable_prev_sum, have_any_stable_prev,
                   res, d, ts, verdict, historyVars, sessionVars>>

\* analyze: st_map_now = get_simple_caps(STABLE_IDS); stable_now; alt_now
FetchStables ==
    /\ pc = "stables"
    /\ \E attempts \in Attempts, body \in StableBodies :
          LET data == cg_get(attempts, body)
              st_map_now == get_simple_caps(data)
          IN  /\ stable_now' = BasketSum(st_map_now)
              /\ alt_now' = AltResidual(gl.total.n, btc_now, BasketSum(st_map_now))
              /\ unavail' = unavail \cup
                     Flag("stable_now", \E sid \in StableSet : ~HasCap(data, sid))
    /\ pc' = "btc_hist"
    /\ UNCHANGED <<runs, window_minutes, gl, btc_now, eth_now, btc_prev_t,
                   eth_prev_t, sidx, stable_prev_sum, have_any_stable_prev,
                   res, d, ts, verdict, historyVars, sessionVars>>

\* analyze: btc_prev_t = get_market_caps_history("bitcoin", window_minutes)
FetchBtcHistory ==
    /\ pc = "btc_hist"
    /\ \E attempts \in Attempts, body \in BtcCharts :
          LET pv == get_market_caps_history(cg_get(attempts, body),
                                            TargetMs(NowMinute, window_minutes))
          IN  /\ btc_prev_t' = pv
              /\ unavail' = unavail \cup Flag("btc_prev", pv = None)
    /\ pc' = "eth_hist"
    /\ UNCHANGED <<runs, window_minutes, gl, btc_now, eth_now, stable_now, alt_now,
                   eth_prev_t, sidx, stable_prev_sum, have_any_stable_prev,
                   res, d, ts, verdict, historyVars, sessionVars>>

\* analyze: eth_prev_t = get_market_caps_history("ethereum", window_minutes);
\* stable_prev_sum = 0.0; have_any_stable_prev = False
FetchEthHistory ==
    /\ pc = "eth_hist"
    /\ \E attempts \in Attempts, body \in EthCharts :
          LET pv == get_market_caps_history(cg_get(attempts, body),
                                            TargetMs(NowMinute, window_minutes))
          IN  /\ eth_prev_t' = pv
              /\ unavail' = unavail \cup Flag("eth_prev", pv = None)
    /\ sidx' = 1 /\ stable_prev_sum' = 0 /\ have_any_stable_prev' = FALSE
    /\ pc' = "stable_hist"
    /\ UNCHANGED <<runs, window_minutes, gl, btc_now, eth_now, stable_now, alt_now,
                   btc_prev_t, res, d, ts, verdict, historyVars, sessionVars>>

\* analyze: one turn of `for sid in STABLE_IDS`
FetchStableHistory ==
    /\ pc = "stable_hist"
    /\ \E attempts \in Attempts, body \in StableCharts :
          LET pv == get_market_caps_history(cg_get(attempts, body),
                                            TargetMs(NowMinute, window_minutes))
          IN  /\ IF pv # None
                 THEN /\ stable_prev_sum' = stable_prev_sum + pv[2]
                      /\ have_any_stable_prev' = TRUE
                 ELSE UNCHANGED <<stable_prev_sum, have_any_stable_prev>>
              /\ unavail' = unavail \cup Flag("stable_prev", pv = None)
    /\ IF sidx < Len(STABLE_IDS)
       THEN sidx' = sidx + 1 /\ pc' = "stable_hist"
       ELSE sidx' = 0 /\ pc' = "deltas"
    /\ UNCHANGED <<runs, window_minutes, gl, btc_now, eth_now, stable_now, alt_now,
                   btc_prev_t, eth_prev_t, res, d, ts, verdict, historyVars,
                   sessionVars>>

\* analyze from `stable_prev = ...` to its return (the Binance context, which no
\* delta reads, is left out)
Compute ==
    /\ pc = "deltas"
    /\ LET stable_prev == IF have_any_stable_prev THEN Q(stable_prev_sum) ELSE None
           d_btc == BucketDelta(btc_now, btc_prev_t)
           d_eth == BucketDelta(eth_now, eth_prev_t)
           d_stable == StableDelta(stable_now, stable_prev)
           btc_dom_now == Q(OrZero(gl.btc_dom))
           eth_dom_now == Q(OrZero(gl.eth_dom))
           stable_dom_now == StableDominance(stable_now, gl.total.n)
           alt_dom_now == AltDominance(btc_dom_now, stable_dom_now)
       IN  res' = Result(
               Snapshot(gl.total.n, btc_now, eth_now, stable_now, alt_now,
                        Dominance(btc_dom_now, eth_dom_now, stable_dom_now, alt_dom_now)),
               DeriveDeltas(d_btc, d_eth, d_stable, eth_now, alt_now))
    /\ gl' = None /\ btc_now' = 0 /\ eth_now' = 0 /\ stable_now' = 0 /\ alt_now' = 0
    /\ btc_prev_t' = None /\ eth_prev_t' = None
    /\ stable_prev_sum' = 0 /\ have_any_stable_prev' = FALSE
    /\ pc' = "analyzed"
    /\ UNCHANGED <<runs, window_minutes, sidx, unavail, d, ts, verdict, historyVars,
                   sessionVars>>

Next ==
    \/ SelectTimeframe
    \/ FetchGlobal \/ FetchCaps \/ FetchStables
    \/ FetchBtcHistory \/ FetchEthHistory \/ FetchStableHistory
    \/ Compute
    \/ StopOnError \/ Render

Spec == Init /\ [][Next]_vars

-----------------------------------------------------------------------------
(* A long session: analyze's successive results are given by a periodic feed *)

MaxRuns == 310
FeedPeriod == 3

SteadySnapshot ==
    Snapshot(100, 50, 20, 10, 40, Dominance(Q(50), Q(20), Q(10), Q(40)))
SessionResults ==
    { None,
      Result(SteadySnapshot, DeltaSet(Q(12), Q(2), Q(3), Q(4), Q(6))),
      Result(SteadySnapshot, DeltaSet(None, None, Q(-3), Q(1), Q(-6))) }

InitSession ==
    /\ pc = "idle" /\ runs = 0 /\ window_minutes = 60
    /\ AnalyzeIdle /\ HistoryIdle
    /\ unavail = {} /\ res = None /\ ts = <<>> /\ verdict = None /\ d = NoDeltas
    /\ log = <<>>
    /\ feed \in [1..FeedPeriod -> SessionResults]

\* One rerun of the script up to `res = analyze(window_minutes)`
RerunFromFeed ==
    /\ pc = "idle"
    /\ runs < MaxRuns
    /\ runs' = runs + 1
    /\ res' = feed[(runs % FeedPeriod) + 1]
    /\ pc' = "analyzed"
    /\ UNCHANGED <<window_minutes, analyzeVars, unavail, d, ts, verdict,
                   historyVars, sessionVars>>

NextSession == RerunFromFeed \/ StopOnError \/ Render
SpecSession == InitSession /\ [][NextSession]_vars

-----------------------------------------------------------------------------
(* The derivation of the DeltaSet (d_alt, d_total) followed by the classifier, on
   arbitrary measured deltas and current caps *)

MaxEth == 2
MaxAlt == 8

InitDerive ==
    /\ pc = "derive" /\ runs = 0 /\ window_minutes = 60
    /\ gl = None /\ btc_now = 0 /\ stable_now = 0
    /\ btc_prev_t = None /\ eth_prev_t = None /\ sidx = 0
    /\ stable_prev_sum = 0 /\ have_any_stable_prev = FALSE
    /\ HistoryIdle /\ SessionIdle
    /\ unavail = {} /\ res = None /\ ts = <<>> /\ verdict = None
    /\ eth_now \in 0..MaxEth
    /\ alt_now \in 0..MaxAlt
    /\ \E b, e, s \in DeltaVals : d = DeltaSet(None, b, e, s, None)

\* analyze: from `eth_share_in_alts_now = ...` to `d_total = d_btc + d_stable + d_alt`
Derive ==
    /\ pc = "derive"
    /\ d' = DeriveDeltas(d.btc, d.eth, d.stable, eth_now, alt_now)
    /\ pc' = "classify"
    /\ UNCHANGED <<runs, window_minutes, analyzeVars, unavail, res, ts, verdict,
                   historyVars, sessionVars>>

NextDerive == Derive \/ Classify
SpecDerive == InitDerive /\ [][NextDerive]_vars

-----------------------------------------------------------------------------
(* Claims about decide_flow, checked under SpecClassify *)

Classified == pc = "classified"
FourPresent == d.btc # None /\ d.eth # None /\ d.stable # None /\ d.alt # None
Largest(x) == \A y \in {d.btc, d.eth, d.alt, d.stable} : RLE(y, x)

\* C1: whenever one of d_btc, d_eth, d_stable, d_alt is null, decide_flow returns
\* the "insufficient data" verdict, whatever the other fields and whether d_total
\* is null or not (and the evaluation does not fail).
C1_NullGivesUnknown ==
    (Classified /\ ~FourPresent) =>
        verdict.msg = "insufficient_data" /\ verdict.color = "gray"

C1_Witness ==
    /\ Classified /\ verdict.msg = "insufficient_data"
    /\ d.alt = None /\ d.btc = Q(MaxDelta) /\ d.eth # None /\ d.stable # None
    /\ d.total = Q(MaxDelta)

\* C4: with the four bucket deltas present and d_total > tol, the verdict is an
\* inflow verdict whose leader is a bucket with the largest delta: the qualified
\* verdict when the leader is Stables, "inflow concentrated in <leader>" (green)
\* otherwise; never a rotation or outflow verdict.
C4_InflowLeader ==
    (Classified /\ FourPresent /\ d.total # None /\ RGT(d.total, tol)) =>
        \/ verdict = InflowStables /\ Largest(d.stable)
        \/ verdict = InflowLeader("BTC") /\ Largest(d.btc)
        \/ verdict = InflowLeader("ETH") /\ Largest(d.eth)
        \/ verdict = InflowLeader("Alts") /\ Largest(d.alt)

C4_Witness ==
    /\ Classified /\ d.total = Q(MaxDelta)
    /\ d.btc = Q(2) /\ d.eth = Q(1) /\ d.alt = Q(4) /\ d.stable = Q(1)
    /\ verdict = InflowLeader("Alts") /\ verdict.color = "green"

\* C5: with the four bucket deltas present and d_total < -tol, the verdict is
\* "outflow -> flight to stablecoins" when d_stable > tol and "outflow from market"
\* otherwise (both red); the rotation rules are not consulted.
C5_Outflow ==
    (Classified /\ FourPresent /\ d.total # None /\ RLT(d.total, RNeg(tol))) =>
        verdict = IF RGT(d.stable, tol) THEN OutflowToStables ELSE OutflowMarket

C5_Witness ==
    /\ Classified /\ d.total = Q(-MaxDelta) /\ d.stable = Q(MaxDelta)
    /\ d.btc = Q(MaxDelta) /\ d.alt = Q(-MaxDelta) /\ d.eth = Q(0)
    /\ verdict = OutflowToStables /\ verdict.color = "red"

\* The rotation table of the specification, with Quiet(v) the test "v shows no
\* growth" of rules 3 and 4.
RotationTable(Quiet(_)) ==
    IF RGT(d.btc, tol) /\ RLT(d.alt, RNeg(tol)) THEN RotationAltsToBtc
    ELSE IF RGT(d.alt, tol) /\ RLT(d.btc, RNeg(tol)) THEN RotationBtcToAlts
    ELSE IF RGT(d.eth, tol) /\ Quiet(d.btc) /\ Quiet(d.alt) THEN EthConcentration
    ELSE IF RGT(d.stable, tol) /\ Quiet(d.btc) /\ Quiet(d.eth) /\ Quiet(d.alt)
         THEN Indecision
    ELSE NeutralVerdict

RotationCase ==
    /\ Classified /\ FourPresent
    /\ d.total = None \/ (RLE(RNeg(tol), d.total) /\ RLE(d.total, tol))

AtMostTol(v) == RLE(v, tol)
StrictlyBelowTol(v) == RLT(v, tol)

\* C6 as stated: with the four bucket deltas present and d_total null or within
\* [-tol, tol], the verdict is that of the first matching rotation rule, rules 3
\* and 4 comparing with <= tol.
C6_AsStated == RotationCase => verdict = RotationTable(AtMostTol)

\* C6 amended: the same table, rules 3 and 4 comparing with < tol: a delta exactly
\* equal to tol does not satisfy them.
C6_StrictRotation == RotationCase => verdict = RotationTable(StrictlyBelowTol)

C6_Witness ==
    /\ Classified /\ d.total = None
    /\ d.eth = Q(Tol + 1) /\ d.btc = tol /\ d.alt = Q(0) /\ d.stable = Q(0)
    /\ verdict = NeutralVerdict

-----------------------------------------------------------------------------
(* Claim about get_market_caps_history, checked under SpecHistory *)

AtOrBefore == {i \in 1..Len(caps) : caps[i][1] <= target_ms}

\* C7: on a time-ordered series the lookup returns a sample whose timestamp is the
\* greatest one not exceeding the cutoff (a sample at the cutoff itself counts, a
\* cutoff between two samples gives the earlier one), and returns None exactly
\* when no sample lies at or before the cutoff or the series is empty.
C7_LastAtOrBeforeCutoff ==
    pc = "looked_up" =>
        IF AtOrBefore = {} THEN prev = None
        ELSE /\ prev # None
             /\ \E i \in AtOrBefore : prev = <<caps[i][1], caps[i][2]>>
             /\ \A j \in AtOrBefore : caps[j][1] <= prev[1]
             /\ prev[1] <= target_ms

C7_Witness ==
    /\ pc = "looked_up"
    /\ caps = <<(<<1, 40>>), (<<3, 44>>)>> /\ target_ms = 2
    /\ prev = <<1, 40>>

-----------------------------------------------------------------------------
(* Claim about the session series, checked under SpecSession *)

Min(a, b) == IF a < b THEN a ELSE b
DeltasOf(point) ==
    DeltaSet(point.dTotal, point.dBTC, point.dETH, point.dStable, point.dAlt)

\* C8: the session series never holds more than 200 points, and after k
\* successful refreshes it holds the DeltaSets of the last min(k, 200) of them,
\* in refresh order (a refresh appends one point at the end; the oldest goes first).
C8_LastTwoHundred ==
    /\ Len(ts) <= 200
    /\ Len(ts) = Min(Len(log), 200)
    /\ \A i \in 1..Len(ts) : DeltasOf(ts[i]) = log[Len(log) - Len(ts) + i]

C8_Witness ==
    /\ pc = "idle" /\ Len(log) = 203 /\ runs > Len(log) /\ Len(ts) = 200
    /\ DeltasOf(ts[1]) = log[4] /\ DeltasOf(ts[1]) # DeltasOf(ts[200])
    /\ ts[200].t = runs

-----------------------------------------------------------------------------
(* Claims about analyze and the run of the script, checked under Spec *)

Analyzed == pc = "analyzed"

\* C2 as stated: each of d_btc, d_eth, d_stable that analyze returns is null
\* whenever a datum under it was unavailable: the current or the historical cap
\* of the asset, and for the basket the current or historical cap of any member.
C2_AsStated ==
    (Analyzed /\ res # None) =>
        /\ ({"btc_now", "btc_prev"} \cap unavail # {}) => res.deltas.btc = None
        /\ ({"eth_now", "eth_prev"} \cap unavail # {}) => res.deltas.eth = None
        /\ ({"stable_now", "stable_prev"} \cap unavail # {}) => res.deltas.stable = None

\* C3 as stated: a fetch that fails on every attempt makes only its own quantity
\* unavailable; in particular when the aggregate-totals fetch fails, analyze still
\* returns a result and the run is not aborted.
C3_AsStated ==
    (Analyzed /\ "global_fetch" \in unavail) => res # None

InUnitRange(x) == RLE(Q(0), x) /\ RLE(x, Q(100))
DomSum(dom) == RAdd(RAdd(dom.btc, dom.eth), RAdd(dom.stable, dom.alt))

BucketsPresent ==
    {"btc_now", "eth_now", "stable_now", "global_dominance"} \cap unavail = {}

\* C9 as stated: in every snapshot analyze returns, each of the four dominance
\* percentages lies in [0, 100], and when all four buckets are present the four
\* sum to 100 within a small tolerance (one percentage point here).
C9_AsStated ==
    (Analyzed /\ res # None) =>
        /\ \A x \in {res.now.dom.btc, res.now.dom.eth, res.now.dom.stable,
                      res.now.dom.alt} : x # None /\ InUnitRange(x)
        /\ BucketsPresent =>
               RLE(Q(99), DomSum(res.now.dom)) /\ RLE(DomSum(res.now.dom), Q(101))

-----------------------------------------------------------------------------
(* Claim about the DeltaSets analyze builds, checked under SpecDerive *)

\* C10: on a DeltaSet built as analyze builds it (d_alt = d_eth / share with the
\* share clipped to [0.15, 0.65], d_total = d_btc + d_stable + d_alt), decide_flow
\* returns neither "relative concentration in ETH" nor the inflow verdict with
\* leader ETH.
C10_NeverSinglesOutEth ==
    Classified => verdict # EthConcentration /\ verdict # InflowLeader("ETH")

C10_Witness ==
    /\ Classified /\ FourPresent
    /\ RGT(d.eth, tol) /\ RLT(d.btc, tol)
    /\ RLE(RNeg(tol), d.total) /\ RLE(d.total, tol)
    /\ RGT(d.alt, d.eth)
    /\ verdict = RotationBtcToAlts

====
